---- MODULE Spec2Model ----
(***************************************************************************)
(* Model of train.py: the tf.data input pipeline built by parse_tfrecords  *)
(* (TFRecordDataset -> map(_parse_) -> shuffle -> repeat(-1) -> batch),    *)
(* the class-weight table, file discovery, optimizer loading and the       *)
(* train_cnn driver with its fit loop.                                     *)
(*                                                                         *)
(* Three specifications:                                                   *)
(*   PipeSpec  - one pipeline, batch after batch, for every file list,     *)
(*               batch size and shuffle-buffer size within the bounds;     *)
(*   Spec      - a whole run of train_cnn on a scaled-down data set;       *)
(*   StepsSpec - the steps-per-epoch arithmetic with the program's own     *)
(*               NUM_TRAIN and NUM_VAL.                                    *)
(***************************************************************************)
EXTENDS Integers, Sequences, FiniteSets, TLC

VARIABLES
    pc,               \* position of train_cnn
    args,             \* parsed command line (batch_size, epochs, optimizer)
    fs,               \* the file system under args.data_path
    train_tfrecords,  \* file list of train/
    val_tfrecords,    \* file list of val/
    counts,           \* the module's example counts NUM_TRAIN, NUM_VAL
    train_ds,         \* iterator state of the train pipeline
    val_ds,           \* iterator state of the validation pipeline
    steps,            \* train_steps_per_epoch / val_steps_per_epoch
    model,            \* the compiled model (its optimizer) or NoModel
    class_weights,    \* the matrix handed to model.fit
    epoch,            \* epochs completed
    step,             \* batches drawn in the current train or validation pass
    error,            \* the exception that ended the run, "" while it runs
    log,              \* external effects of the set-up, in order
    drawn,            \* history: batches served so far by each pipeline
    seen,             \* history: records drawn in the current epoch / pass
    ds,               \* PipeSpec: iterator state of the pipeline under test
    out,              \* PipeSpec: answer to the last get_next
    requests,         \* PipeSpec: get_next calls made
    count             \* PipeSpec: history, times each record was emitted

runVars  == <<pc, args, fs, train_tfrecords, val_tfrecords, counts, train_ds,
              val_ds, steps, model, class_weights, epoch, step, error, log,
              drawn, seen>>
pipeVars == <<ds, out, requests, count>>
vars     == <<runVars, pipeVars>>

-----------------------------------------------------------------------------
(* Program constants *)

NUM_CLASSES == 4
NUM_TRAIN == 86317
NUM_VAL == 10778
BATCH_SIZE == 64

(* Bounds of the model *)

MaxFiles == 3        \* files in a file list (PipeSpec)
MaxPerFile == 2      \* records in one file (PipeSpec)
MaxTotal == 3        \* records in a file list (PipeSpec)
MaxBatch == 2        \* PipeSpec: batch_size ranges over 1..MaxBatch
MaxBuffer == 3       \* PipeSpec: buffer_size ranges over 1..MaxBuffer
MaxRequests == 6     \* get_next calls in a PipeSpec behaviour
MaxBatchSize == 3    \* Spec: args.batch_size ranges over 1..MaxBatchSize
NumTrain == 4        \* scaled-down stand-in for NUM_TRAIN in a whole run
NumVal == 3          \* scaled-down stand-in for NUM_VAL in a whole run
MaxEpochs == 3       \* args.epochs ranges over 0..MaxEpochs
MaxBatchArg == 128   \* StepsSpec: batch_size ranges over 1..MaxBatchArg

-----------------------------------------------------------------------------
(* Record files.  A serialized record carries its band payloads (abstracted *)
(* to a tag <<folder, file, index>>, unique per record) and an int64 label. *)
(* An int64 v is written [hi, lo] with v = hi * 2^32 + lo and lo in the     *)
(* int32 range: lo is the value of its low 32 bits, hi what lies above.     *)

Int64(hi, lo) == [hi |-> hi, lo |-> lo]

RECURSIVE SumSeq(_)
SumSeq(s) == IF s = <<>> THEN 0 ELSE Head(s) + SumSeq(Tail(s))

Record(tag, label) == [bands |-> tag, label |-> label]

\* Lengths of the first f-1 files of a size list.
Before(sizes, f) == SumSeq(SubSeq(sizes, 1, f - 1))

\* Files of a folder: file f holds sizes[f] records, labelled consecutively
\* from first on.
MakeFiles(dir, sizes, first) ==
    [f \in 1..Len(sizes) |->
        [r \in 1..sizes[f] |->
            Record(<<dir, f, r>>,
                   Int64(first.hi, first.lo + Before(sizes, f) + r - 1))]]

RECURSIVE Flatten(_)
Flatten(filelist) ==
    IF filelist = <<>> THEN <<>> ELSE Head(filelist) \o Flatten(Tail(filelist))

NumRecords(filelist) == Len(Flatten(filelist))

-----------------------------------------------------------------------------
(* _parse_: image tensor and one-hot label of one record *)

\* tf.one_hot(label, depth): 1 at index label, 0 elsewhere; an index outside
\* [0, depth) matches no position.
one_hot(label, depth) == [i \in 1..depth |-> IF i - 1 = label THEN 1 ELSE 0]

\* tf.cast(int64 -> int32) keeps the low 32 bits.
cast_int32(x) == x.lo

_parse_(serialized_example) ==
    [image |-> serialized_example.bands,
     label |-> one_hot(cast_int32(serialized_example.label), NUM_CLASSES)]

NoExample == [image |-> <<>>, label |-> <<>>]

-----------------------------------------------------------------------------
(* The pipeline of parse_tfrecords, as the chain of iterators tf.data      *)
(* builds.  Every iterator's get-next yields [ds, end, elem]; the shuffle  *)
(* and everything above it yield the set of all outcomes the random choice *)
(* allows.                                                                 *)

\* parse_tfrecords: the one-shot iterator before its first get_next.
parse_tfrecords(filelist, batch_size, buffer_size) ==
    [filelist    |-> filelist,
     batch_size  |-> batch_size,
     buffer_size |-> buffer_size,
     file        |-> 1,        \* reader: current file of the list
     offset      |-> 0,        \* reader: records consumed of that file
     buffer      |-> {},       \* shuffle buffer
     first_call  |-> TRUE,     \* repeat: nothing produced yet in this pass
     passes      |-> 0,        \* history: restarts made by repeat
     reads       |-> 0]        \* history: records read from the files

\* TFRecordDataset(filelist): the files in list order, each front to back.
RECURSIVE TFRecordNext(_)
TFRecordNext(d) ==
    IF d.file > Len(d.filelist)
    THEN [ds |-> d, end |-> TRUE, elem |-> NoExample]
    ELSE IF d.offset < Len(d.filelist[d.file])
    THEN [ds   |-> [d EXCEPT !.offset = @ + 1, !.reads = @ + 1],
          end  |-> FALSE,
          elem |-> d.filelist[d.file][d.offset + 1]]
    ELSE TFRecordNext([d EXCEPT !.file = @ + 1, !.offset = 0])

\* .map(lambda x: _parse_(x))
MapNext(d) ==
    LET r == TFRecordNext(d)
    IN  IF r.end THEN r ELSE [r EXCEPT !.elem = _parse_(r.elem)]

\* Mutant of ShuffleFill: reads one element more than the buffer may hold.
RECURSIVE ShuffleFillOver(_)
ShuffleFillOver(d) ==
    IF Cardinality(d.buffer) > d.buffer_size
    THEN d
    ELSE LET r == MapNext(d)
         IN  IF r.end THEN r.ds
             ELSE ShuffleFillOver([r.ds EXCEPT !.buffer = @ \cup {r.elem}])

\* .shuffle(buffer_size), filling: read ahead until the buffer holds
\* buffer_size elements or the input is exhausted.
RECURSIVE ShuffleFill(_)
ShuffleFill(d) ==
    IF Cardinality(d.buffer) >= d.buffer_size
    THEN d
    ELSE LET r == MapNext(d)
         IN  IF r.end THEN r.ds
             ELSE ShuffleFill([r.ds EXCEPT !.buffer = @ \cup {r.elem}])

\* Mutant of ShuffleNext: ends the pass when the input is exhausted, leaving
\* what is still buffered behind.
ShuffleNextNoDrain(d) ==
    LET f == ShuffleFill(d)
    IN  IF Cardinality(f.buffer) < f.buffer_size
        THEN {[ds |-> f, end |-> TRUE, elem |-> NoExample]}
        ELSE {[ds |-> [f EXCEPT !.buffer = @ \ {e}], end |-> FALSE, elem |-> e]
                : e \in f.buffer}

\* .shuffle(buffer_size), emitting: any buffered element; end of the pass
\* only once the buffer has drained.
ShuffleNext(d) ==
    LET f == ShuffleFill(d)
    IN  IF f.buffer = {}
        THEN {[ds |-> f, end |-> TRUE, elem |-> NoExample]}
        ELSE {[ds |-> [f EXCEPT !.buffer = @ \ {e}], end |-> FALSE, elem |-> e]
                : e \in f.buffer}

\* repeat starts the next pass over its input with a fresh iterator.
Rewind(d) ==
    [d EXCEPT !.file = 1, !.offset = 0, !.buffer = {}, !.first_call = TRUE,
              !.passes = @ + 1]

\* Mutant of RepeatNext: a single pass, as repeat(1).
RepeatNextOnce(d) ==
    { IF o.end THEN o ELSE [o EXCEPT !.ds.first_call = FALSE] : o \in ShuffleNext(d) }

\* .repeat(-1): when the input ends, start over; an input that ends on the
\* first call of a pass is empty, and the repetition ends with it.
RECURSIVE RepeatNext(_)
RepeatNext(d) ==
    UNION { IF ~o.end
            THEN {[o EXCEPT !.ds.first_call = FALSE]}
            ELSE IF o.ds.first_call
            THEN {o}
            ELSE RepeatNext(Rewind(o.ds))
          : o \in ShuffleNext(d) }

\* .batch(batch_size): batch_size consecutive elements; end of data when the
\* input ends before the first of them.
RECURSIVE BatchFrom(_, _)
BatchFrom(d, acc) ==
    IF Len(acc) = d.batch_size
    THEN {[ds |-> d, end |-> FALSE, batch |-> acc]}
    ELSE UNION { IF o.end
                 THEN {[ds |-> o.ds, end |-> acc = <<>>, batch |-> acc]}
                 ELSE BatchFrom(o.ds, Append(acc, o.elem))
               : o \in RepeatNext(d) }

\* One evaluation of the tensors returned by tfrecord_iterator.get_next().
BatchNext(d) == BatchFrom(d, <<>>)

-----------------------------------------------------------------------------
(* PipeSpec: a pipeline on its own *)

FirstLabels == {Int64(0, -1), Int64(0, 0), Int64(0, NUM_CLASSES - 2), Int64(1, 0)}

SizeLists ==
    { s \in UNION { [1..n -> 0..MaxPerFile] : n \in 0..MaxFiles }
        : SumSeq(s) <= MaxTotal }

Images(filelist) == { Flatten(filelist)[i].bands : i \in 1..NumRecords(filelist) }

NoAnswer == [end |-> FALSE, batch |-> <<>>]

PipeIdle ==
    /\ pc = "pipe"
    /\ args = <<>> /\ fs = <<>> /\ train_tfrecords = <<>> /\ val_tfrecords = <<>>
    /\ counts = <<>> /\ train_ds = <<>> /\ val_ds = <<>> /\ steps = <<>>
    /\ model = <<>> /\ class_weights = <<>> /\ epoch = 0 /\ step = 0
    /\ error = "" /\ log = <<>> /\ drawn = <<>> /\ seen = <<>>

PipeInit ==
    /\ PipeIdle
    /\ \E sizes \in SizeLists, first \in FirstLabels,
          b \in 1..MaxBatch, c \in 1..MaxBuffer :
          /\ ds = parse_tfrecords(MakeFiles("data", sizes, first), b, c)
          /\ count = [i \in Images(ds.filelist) |-> 0]
    /\ out = NoAnswer
    /\ requests = 0

\* A caller evaluates the next batch.
GetNext ==
    /\ pc = "pipe"
    /\ requests < MaxRequests
    /\ ~out.end
    /\ \E o \in BatchNext(ds) :
          /\ ds' = o.ds
          /\ out' = [end |-> o.end, batch |-> o.batch]
          /\ count' = [i \in DOMAIN count |->
                          count[i] + Cardinality({k \in 1..Len(o.batch) :
                                                    o.batch[k].image = i})]
    /\ requests' = requests + 1
    /\ UNCHANGED runVars

PipeNext == GetNext

PipeSpec == PipeInit /\ [][PipeNext]_vars

-----------------------------------------------------------------------------
(* File discovery: load_data and file_list_from_folder.  File names are    *)
(* sequences of characters, so that the prefix and suffix tests are tests. *)

startswith(s, prefix) ==
    /\ Len(s) >= Len(prefix)
    /\ SubSeq(s, 1, Len(prefix)) = prefix

endswith(s, suffix) ==
    /\ Len(s) >= Len(suffix)
    /\ SubSeq(s, Len(s) - Len(suffix) + 1, Len(s)) = suffix

PartPrefix == <<"p", "a", "r", "t", "-">>
TmpSuffix  == <<"g", "s", "t", "m", "p">>

\* The loop of file_list_from_folder over os.listdir(folderpath), in listing
\* order; a path is the pair of folder and file name.
RECURSIVE ListFiles(_, _)
ListFiles(folder, names) ==
    IF names = <<>> THEN <<>>
    ELSE LET filename == Head(names)
             rest     == ListFiles(folder, Tail(names))
         IN  IF startswith(filename, PartPrefix) /\ ~endswith(filename, TmpSuffix)
             THEN <<[folder |-> folder, name |-> filename]>> \o rest
             ELSE rest

file_list_from_folder(folder, data) ==
    ListFiles(folder, [k \in 1..Len(data[folder].entries) |->
                          data[folder].entries[k].name])

\* What TFRecordDataset finds at the paths of a file list.
RecordsAt(data, path) ==
    LET e == data[path.folder].entries
        k == CHOOSE k \in 1..Len(e) : e[k].name = path.name
    IN  e[k].records

OpenFiles(data, filelist) ==
    [k \in 1..Len(filelist) |-> RecordsAt(data, filelist[k])]

-----------------------------------------------------------------------------
(* load_optimizer: getattr(tensorflow.keras.optimizers, name) *)

KerasOptimizers == {"Adam", "SGD", "RMSprop", "Adagrad", "Adadelta", "Adamax",
                    "Nadam", "Ftrl"}

NoModel == [built |-> FALSE, optimizer |-> ""]

\* Mutant of load_optimizer: an unknown name falls back to the default.
load_optimizer_default(optimizer) ==
    IF optimizer \in KerasOptimizers
    THEN [found |-> TRUE, class |-> optimizer]
    ELSE [found |-> TRUE, class |-> "Adam"]

\* The optimizer class of that name, or no class at all (AttributeError).
load_optimizer(optimizer) ==
    IF optimizer \in KerasOptimizers
    THEN [found |-> TRUE, class |-> optimizer]
    ELSE [found |-> FALSE, class |-> ""]

-----------------------------------------------------------------------------
(* class_weights_matrix *)

zeros(rows, cols) == [i \in 1..rows |-> [j \in 1..cols |-> 0]]

\* class_weights[:, col] += v    (col counted from 0, as in the source)
AddToColumn(w, col, v) == [i \in DOMAIN w |-> [w[i] EXCEPT ![col + 1] = @ + v]]

WeightsTable(rows) ==
    AddToColumn(AddToColumn(AddToColumn(AddToColumn(
        zeros(rows, NUM_CLASSES), 0, 1), 1, 4), 2, 4), 3, 6)

\* Mutant of class_weights_matrix: the last column is never weighted, the
\* third is weighted twice.
class_weights_matrix_col == 
    AddToColumn(AddToColumn(AddToColumn(AddToColumn(
        zeros(counts.train, NUM_CLASSES), 0, 1), 1, 4), 2, 4), 2, 6)

class_weights_matrix == WeightsTable(counts.train)

-----------------------------------------------------------------------------
(* Steps per epoch: int(math.floor(float(count) / float(batch_size))).     *)
(* Both operands are integers below 2^53, so the conversions are exact,    *)
(* and the correctly rounded quotient of a count below 2^17 cannot reach   *)
(* the next integer: its floor is the integer quotient.                    *)

\* Mutants of steps_per_epoch: rounding to nearest, rounding up.
steps_rounded(count_, batch_size) == (2 * count_ + batch_size) \div (2 * batch_size)

steps_ceil(count_, batch_size) == (count_ + batch_size - 1) \div batch_size

steps_per_epoch(count_, batch_size) == count_ \div batch_size

-----------------------------------------------------------------------------
(* The fit loop: epochs of steps.train train batches, each followed by     *)
(* steps.val validation batches.                                           *)

\* Mutant of AfterBatch: the next epoch starts without a validation pass.
AfterBatchNoVal(phase, done, e, st, epochs) ==
    IF done < st.train THEN [pc |-> "train", step |-> done, epoch |-> e]
    ELSE IF e + 1 < epochs THEN [pc |-> "train", step |-> 0, epoch |-> e + 1]
    ELSE [pc |-> "done", step |-> 0, epoch |-> e + 1]

\* Where the loop goes after a batch: phase is "train" or "validate", done
\* counts the batches of the current pass including this one, e the epochs
\* completed before this pass. Both step counts are at least 1 (Init).
AfterBatch(phase, done, e, st, epochs) ==
    IF phase = "train"
    THEN IF done < st.train THEN [pc |-> "train", step |-> done, epoch |-> e]
         ELSE [pc |-> "validate", step |-> 0, epoch |-> e]
    ELSE IF done < st.val THEN [pc |-> "validate", step |-> done, epoch |-> e]
         ELSE IF e + 1 < epochs THEN [pc |-> "train", step |-> 0, epoch |-> e + 1]
         ELSE [pc |-> "done", step |-> 0, epoch |-> e + 1]

ImagesOf(batch) == { batch[k].image : k \in 1..Len(batch) }

-----------------------------------------------------------------------------
(* Spec: a run of train_cnn *)

SuccessName == <<"_", "S", "U", "C", "C", "E", "S", "S">>
PartName(d) == PartPrefix \o <<"0", "0", d>>
TmpName(d)  == PartName(d) \o <<".">> \o TmpSuffix

MissingFolder == [exists |-> FALSE, entries |-> <<>>]
EmptyFolder   == [exists |-> TRUE, entries |-> <<>>]

\* A folder of n finalized records in two part files, a marker file and a
\* part file still being written.
DataFolder(folder, n) ==
    LET files == MakeFiles(folder, <<(n + 1) \div 2, n \div 2, 1>>, Int64(0, 0))
    IN  [exists  |-> TRUE,
         entries |-> << [name |-> PartName("0"), records |-> files[1]],
                        [name |-> SuccessName, records |-> <<>>],
                        [name |-> TmpName("2"), records |-> files[3]],
                        [name |-> PartName("1"), records |-> files[2]] >>]

\* A folder holding nothing but the marker and a part file being written.
TmpFolder(folder) ==
    LET files == MakeFiles(folder, <<1>>, Int64(0, 0))
    IN  [exists  |-> TRUE,
         entries |-> << [name |-> SuccessName, records |-> <<>>],
                        [name |-> TmpName("0"), records |-> files[1]] >>]

Folders(folder, n) ==
    {MissingFolder, EmptyFolder, TmpFolder(folder)}
        \cup { DataFolder(folder, k) : k \in {0, n - 1, n} }

NoPath == [exists |-> FALSE, train |-> MissingFolder, val |-> MissingFolder]

FileSystems ==
    {NoPath} \cup
    { [exists |-> TRUE, train |-> t, val |-> v]
        : t \in Folders("train", NumTrain), v \in Folders("val", NumVal) }

OptimizerArgs == {"Adam", "adam"}

NoDataset == parse_tfrecords(<<>>, 0, 0)

Init ==
    /\ pc = "load_data"
    /\ counts = [train |-> NumTrain, val |-> NumVal]
    /\ args \in { a \in [batch_size : 1..MaxBatchSize, epochs : 0..MaxEpochs,
                         optimizer : OptimizerArgs]
                    : a.batch_size <= NumTrain /\ a.batch_size <= NumVal }
    /\ fs \in FileSystems
    /\ train_tfrecords = <<>> /\ val_tfrecords = <<>>
    /\ train_ds = NoDataset /\ val_ds = NoDataset
    /\ steps = [train |-> 0, val |-> 0]
    /\ model = NoModel
    /\ class_weights = <<>>
    /\ epoch = 0 /\ step = 0
    /\ error = ""
    /\ log = <<>>
    /\ drawn = [train |-> 0, val |-> 0]
    /\ seen = [train |-> {}, val |-> {}]
    /\ ds = NoDataset /\ out = NoAnswer /\ requests = 0 /\ count = <<>>

Raise(e) == pc' = "error" /\ error' = e

\* train_tfrecords, val_tfrecords = load_data(args.data_path)
LoadData ==
    /\ pc = "load_data"
    /\ IF ~fs.exists \/ ~fs.train.exists
       THEN /\ Raise("FileNotFoundError")
            /\ UNCHANGED <<train_tfrecords, val_tfrecords, log>>
       ELSE IF ~fs.val.exists
       THEN /\ Raise("FileNotFoundError")
            /\ log' = log \o <<"listdir">>
            /\ UNCHANGED <<train_tfrecords, val_tfrecords>>
       ELSE /\ train_tfrecords' = file_list_from_folder("train", fs)
            /\ val_tfrecords' = file_list_from_folder("val", fs)
            /\ log' = log \o <<"listdir", "listdir">>
            /\ pc' = "wandb_init"
            /\ UNCHANGED error
    /\ UNCHANGED <<args, fs, counts, train_ds, val_ds, steps, model,
                   class_weights, epoch, step, drawn, seen, pipeVars>>

\* wandb.init and wandb.config.update
WandbInit ==
    /\ pc = "wandb_init"
    /\ log' = log \o <<"wandb">>
    /\ pc' = "parse_train"
    /\ UNCHANGED <<args, fs, train_tfrecords, val_tfrecords, counts, train_ds,
                   val_ds, steps, model, class_weights, epoch, step, error,
                   drawn, seen, pipeVars>>

\* parse_tfrecords(train_tfrecords, args.batch_size, NUM_TRAIN)
ParseTrain ==
    /\ pc = "parse_train"
    /\ train_ds' = parse_tfrecords(OpenFiles(fs, train_tfrecords),
                                   args.batch_size, counts.train)
    /\ log' = log \o <<"dataset">>
    /\ pc' = "parse_val"
    /\ UNCHANGED <<args, fs, train_tfrecords, val_tfrecords, counts, val_ds,
                   steps, model, class_weights, epoch, step, error, drawn,
                   seen, pipeVars>>

\* parse_tfrecords(val_tfrecords, args.batch_size, NUM_VAL)
ParseVal ==
    /\ pc = "parse_val"
    /\ val_ds' = parse_tfrecords(OpenFiles(fs, val_tfrecords),
                                 args.batch_size, counts.val)
    /\ log' = log \o <<"dataset">>
    /\ pc' = "steps"
    /\ UNCHANGED <<args, fs, train_tfrecords, val_tfrecords, counts, train_ds,
                   steps, model, class_weights, epoch, step, error, drawn,
                   seen, pipeVars>>

\* train_steps_per_epoch, val_steps_per_epoch
ComputeSteps ==
    /\ pc = "steps"
    /\ steps' = [train |-> steps_per_epoch(counts.train, args.batch_size),
                 val   |-> steps_per_epoch(counts.val, args.batch_size)]
    /\ pc' = "build_model"
    /\ UNCHANGED <<args, fs, train_tfrecords, val_tfrecords, counts, train_ds,
                   val_ds, model, class_weights, epoch, step, error, log,
                   drawn, seen, pipeVars>>

\* model = build_classification_model(args)
BuildModel ==
    /\ pc = "build_model"
    /\ LET o == load_optimizer(args.optimizer)
       IN  IF o.found
           THEN /\ model' = [built |-> TRUE, optimizer |-> o.class]
                /\ log' = log \o <<"model">>
                /\ pc' = "fit"
                /\ UNCHANGED error
           ELSE /\ Raise("AttributeError")
                /\ UNCHANGED <<model, log>>
    /\ UNCHANGED <<args, fs, train_tfrecords, val_tfrecords, counts, train_ds,
                   val_ds, steps, class_weights, epoch, step, drawn, seen,
                   pipeVars>>

\* model.fit(...): its arguments are evaluated, the loop starts.
Fit ==
    /\ pc = "fit"
    /\ class_weights' = class_weights_matrix
    /\ epoch' = 0 /\ step' = 0
    /\ pc' = IF args.epochs > 0 THEN "train" ELSE "done"
    /\ UNCHANGED <<args, fs, train_tfrecords, val_tfrecords, counts, train_ds,
                   val_ds, steps, model, error, log, drawn, seen, pipeVars>>

\* One training step: the next batch of the train pipeline.
TrainStep ==
    /\ pc = "train"
    /\ \E o \in BatchNext(train_ds) :
          IF o.end
          THEN /\ Raise("OutOfRangeError")
               /\ UNCHANGED <<train_ds, epoch, step, drawn, seen>>
          ELSE LET n == AfterBatch("train", step + 1, epoch, steps, args.epochs)
               IN  /\ train_ds' = o.ds
                   /\ drawn' = [drawn EXCEPT !.train = @ + 1]
                   /\ seen' = [train |-> seen.train \cup ImagesOf(o.batch),
                               val   |-> IF n.pc = "validate" THEN {} ELSE seen.val]
                   /\ pc' = n.pc /\ step' = n.step /\ epoch' = n.epoch
                   /\ UNCHANGED error
    /\ UNCHANGED <<args, fs, train_tfrecords, val_tfrecords, counts, val_ds,
                   steps, model, class_weights, log, pipeVars>>

\* One validation step: the next batch of the validation pipeline.
ValStep ==
    /\ pc = "validate"
    /\ \E o \in BatchNext(val_ds) :
          IF o.end
          THEN /\ Raise("OutOfRangeError")
               /\ UNCHANGED <<val_ds, epoch, step, drawn, seen>>
          ELSE LET n == AfterBatch("validate", step + 1, epoch, steps, args.epochs)
               IN  /\ val_ds' = o.ds
                   /\ drawn' = [drawn EXCEPT !.val = @ + 1]
                   /\ seen' = [train |-> IF n.pc = "train" THEN {} ELSE seen.train,
                               val   |-> seen.val \cup ImagesOf(o.batch)]
                   /\ pc' = n.pc /\ step' = n.step /\ epoch' = n.epoch
                   /\ UNCHANGED error
    /\ UNCHANGED <<args, fs, train_tfrecords, val_tfrecords, counts, train_ds,
                   steps, model, class_weights, log, pipeVars>>

Next ==
    \/ LoadData
    \/ WandbInit
    \/ ParseTrain
    \/ ParseVal
    \/ ComputeSteps
    \/ BuildModel
    \/ Fit
    \/ TrainStep
    \/ ValStep

Spec == Init /\ [][Next]_vars

-----------------------------------------------------------------------------
(* StepsSpec: the step counts for the program's NUM_TRAIN and NUM_VAL *)

StepsInit ==
    /\ pc = "steps"
    /\ counts = [train |-> NUM_TRAIN, val |-> NUM_VAL]
    /\ args \in [batch_size : 1..MaxBatchArg, epochs : {0}, optimizer : {"Adam"}]
    /\ fs = NoPath
    /\ train_tfrecords = <<>> /\ val_tfrecords = <<>>
    /\ train_ds = NoDataset /\ val_ds = NoDataset
    /\ steps = [train |-> 0, val |-> 0]
    /\ model = NoModel
    /\ class_weights = <<>>
    /\ epoch = 0 /\ step = 0
    /\ error = ""
    /\ log = <<>>
    /\ drawn = [train |-> 0, val |-> 0]
    /\ seen = [train |-> {}, val |-> {}]
    /\ ds = NoDataset /\ out = NoAnswer /\ requests = 0 /\ count = <<>>

StepsNext == ComputeSteps

StepsSpec == StepsInit /\ [][StepsNext]_vars

-----------------------------------------------------------------------------
(* Properties of the pipeline (PipeSpec) *)

ReadOrder == Flatten(ds.filelist)
N == NumRecords(ds.filelist)
Emitted == SumSeq([k \in 1..N |-> count[ReadOrder[k].bands]])
IsBatch(b, size) == Len(b) = size

\* C1 as stated: with a non-empty list of record files, no request for a
\* batch is ever answered with end-of-data.
C1_NonEmptyListNeverEnds ==
    Len(ds.filelist) > 0 => ~out.end

\* C1 (amended): when the listed files hold at least one record, every
\* request made so far was answered with a batch of batch_size examples and so
\* will the next one be, whatever the shuffle chooses: reading restarts from
\* the first record once the files are exhausted.
C1_RecordsNeverEnd ==
    N > 0 =>
        /\ ~out.end
        /\ requests > 0 => IsBatch(out.batch, ds.batch_size)
        /\ \A o \in BatchNext(ds) : ~o.end /\ IsBatch(o.batch, ds.batch_size)

\* C1: batches keep coming over restarts, with an empty file in the list.
C1_Witness ==
    /\ N > 0
    /\ \E f \in 1..Len(ds.filelist) : ds.filelist[f] = <<>>
    /\ ds.passes >= 2
    /\ requests = MaxRequests
    /\ ~out.end /\ IsBatch(out.batch, ds.batch_size)

\* C2: once k*N examples have been emitted, N being the number of records in
\* the listed files, every record has been emitted at least k times, for
\* every buffer size and every choice of the shuffle.
C2_EveryRecordEveryPass ==
    LET emitted == Emitted
    IN  \A k \in 1..(MaxRequests * MaxBatch) :
            (N > 0 /\ emitted >= k * N) =>
                \A i \in DOMAIN count : count[i] >= k

\* C2: two passes over three files, shuffled, every record emitted twice.
C2_Witness ==
    /\ Len(ds.filelist) = 3
    /\ N >= 3
    /\ ds.buffer_size >= 2
    /\ Emitted = 2 * N
    /\ \A i \in DOMAIN count : count[i] = 2

\* C3: with buffer_size 1 the examples come out in read order: the j-th
\* emitted example is the parsed record at position ((j-1) mod N) + 1 of the
\* files taken in list order, each front to back.
C3_BufferOneKeepsOrder ==
    (ds.buffer_size = 1 /\ requests > 0 /\ ~out.end) =>
        /\ IsBatch(out.batch, ds.batch_size)
        /\ \A k \in 1..Len(out.batch) :
              out.batch[k] =
                  _parse_(ReadOrder[(((requests - 1) * ds.batch_size + k - 1) % N) + 1])

\* C3: buffer size 1, several files, batches across a restart.
C3_Witness ==
    /\ ds.buffer_size = 1
    /\ Len(ds.filelist) >= 2
    /\ N >= 3
    /\ ds.batch_size >= 2
    /\ ds.passes >= 1
    /\ requests >= 2
    /\ ~out.end

\* C6 as stated: no batch is emitted that holds a label vector without
\* exactly one 1 (a record whose label is out of range stops the run instead).
C6_OneHotOrFail ==
    \A k \in 1..Len(out.batch) : SumSeq(out.batch[k].label) = 1

-----------------------------------------------------------------------------
(* Properties of the step counts (StepsSpec) *)

\* C4: steps-per-epoch of each split is floor(example_count / batch_size):
\* the largest s with s * batch_size <= count; 1348 and 168 for batch size 64.
C4_StepsAreFloor ==
    pc = "build_model" =>
        /\ steps.train * args.batch_size <= NUM_TRAIN
        /\ NUM_TRAIN < (steps.train + 1) * args.batch_size
        /\ steps.val * args.batch_size <= NUM_VAL
        /\ NUM_VAL < (steps.val + 1) * args.batch_size
        /\ args.batch_size = BATCH_SIZE => steps.train = 1348 /\ steps.val = 168

\* C4: the step counts of the default batch size.
C4_Witness ==
    /\ pc = "build_model"
    /\ args.batch_size = BATCH_SIZE
    /\ steps = [train |-> 1348, val |-> 168]

-----------------------------------------------------------------------------
(* Properties of a run (Spec) *)

Training == pc \in {"train", "validate", "done"}
Happened(event) == \E k \in 1..Len(log) : log[k] = event
Weights == <<1, 4, 4, 6>>

\* C5: from the start of training on, the class-weight table has one row per
\* train example and NUM_CLASSES columns, and every row is [1, 4, 4, 6]; so has
\* the table built for 100 examples.
C5_WeightTable ==
    /\ Training =>
          /\ Len(class_weights) = counts.train
          /\ \A i \in 1..Len(class_weights) : class_weights[i] = Weights
    /\ pc = "fit" =>
          /\ Len(WeightsTable(100)) = 100
          /\ \A i \in 1..100 : WeightsTable(100)[i] = Weights

\* C5: a run of two epochs has ended with the table as built.
C5_Witness ==
    /\ pc = "done"
    /\ epoch >= 2
    /\ drawn.train >= 2
    /\ Len(class_weights) = counts.train
    /\ class_weights[counts.train] = Weights

\* C7 as stated: when the run aborts on an unknown optimizer name, no file
\* listing, no pipeline construction and no record read has happened.
C7_AbortBeforeAnyIO ==
    error = "AttributeError" =>
        /\ ~Happened("listdir")
        /\ ~Happened("dataset")
        /\ train_ds.reads = 0 /\ val_ds.reads = 0

\* C7 (amended): with an unknown optimizer name the run never gets to
\* training and no model is built; when it aborts on the name, at model-build
\* time, both folders have been listed and both pipelines constructed, but no
\* record has been read.
C7_AbortAtModelBuild ==
    args.optimizer \notin KerasOptimizers =>
        /\ pc \notin {"fit", "train", "validate", "done"}
        /\ ~model.built
        /\ error = "AttributeError" =>
              /\ log = <<"listdir", "listdir", "wandb", "dataset", "dataset">>
              /\ train_ds.reads = 0 /\ val_ds.reads = 0
              /\ drawn = [train |-> 0, val |-> 0]

\* C7: the run aborted on the optimizer name with full data folders.
C7_Witness ==
    /\ error = "AttributeError"
    /\ pc = "error"
    /\ NumRecords(train_ds.filelist) = counts.train
    /\ NumRecords(val_ds.filelist) = counts.val

NoFinalizedFile(folder) == file_list_from_folder(folder, fs) = <<>>

\* C8 as stated: when the data path or a folder is missing, or train/ or
\* val/ holds no finalized record file, the run ends in load_data with an
\* error, before any pipeline or model is built.
C8_FatalAtLoad ==
    (\/ ~fs.exists \/ ~fs.train.exists \/ ~fs.val.exists
     \/ NoFinalizedFile("train") \/ NoFinalizedFile("val")) =>
        /\ pc \in {"load_data", "error"}
        /\ pc = "error" => error = "FileNotFoundError"
        /\ ~Happened("dataset") /\ ~Happened("model")

EpochSteps == [train |-> counts.train \div args.batch_size,
               val   |-> counts.val \div args.batch_size]

\* The batches drawn so far are those of whole epochs plus the current pass.
EpochsInOrder ==
    /\ pc = "train" =>
          /\ epoch < args.epochs /\ step < EpochSteps.train
          /\ drawn.train = epoch * EpochSteps.train + step
          /\ drawn.val = epoch * EpochSteps.val
    /\ pc = "validate" =>
          /\ epoch < args.epochs /\ step < EpochSteps.val
          /\ drawn.train = (epoch + 1) * EpochSteps.train
          /\ drawn.val = epoch * EpochSteps.val + step
    /\ pc = "done" =>
          /\ epoch = args.epochs
          /\ drawn.train = args.epochs * EpochSteps.train
          /\ drawn.val = args.epochs * EpochSteps.val

ValImages == Images(val_ds.filelist)
TrainImages == Images(train_ds.filelist)
ValPassOver == pc \in {"train", "done"} /\ epoch >= 1

NotDrawn == Cardinality(TrainImages \ seen.train)
Remainder == counts.train % args.batch_size
EpochTrained == pc = "validate" /\ Cardinality(TrainImages) = counts.train

====
